---- MODULE Spec2Model ----
(***************************************************************************)
(* Verification model of the voice-for-everyone frontend:                  *)
(*   - RealTimeTranslation (src/unnamed/part_005): the WebSocket client    *)
(*     with its retry timers and Reconnect button;                         *)
(*   - the per-step players SimpleHumanVideo / RealHumanVideo /            *)
(*     BodyLanguageVideo (one setInterval progress effect);                *)
(*   - RealHumanBodyAnimation (a setInterval effect and a setTimeout       *)
(*     effect sharing one progressRef).                                    *)
(* React state is modelled as committed immediately: a handler together    *)
(* with the re-render and the effects it triggers is one action.           *)
(***************************************************************************)
EXTENDS Integers, Sequences, FiniteSets, TLC

(* ------------------------------ bounds --------------------------------- *)
\* number of WebSocket objects the component may create in one run
MaxSockets == 5
\* longest instruction list handed to a player
MaxLen == 3
\* longest duration of one instruction, in ticks of 100 ms
MaxDur == 3
\* the clock of the players stops at MaxNow ticks
MaxNow == 8
\* number of WebSocket objects in a run that exchanges messages
MaxMsgSockets == 2
\* longest text typed into the input field, in chunks
MaxText == 2
\* number of inbound frames in one run
MaxFrames == 2
\* number of calls of sendTextInput in one run
MaxSubmits == 1
\* longest list, longest duration and last tick of the runs that cover both
\* kinds of player
MaxLenBoth == 2
MaxDurBoth == 2
MaxNowBoth == 2
\* longest text typed or spoken into BodyLanguageTranslator, in chunks
MaxInput == 1
\* number of fetches BodyLanguageTranslator issues in one run
MaxRequests == 2
\* number of calls of handleTextToBodyTranslation in one run
MaxTranslateCalls == 2
\* number of recognition objects started in one run
MaxSessions == 1
\* number of auto-translate timers pending at once
MaxSpeechTimers == 1
\* number of calls of stopListening in one run
MaxStops == 1
\* number of times the Settings page is opened in one run
MaxMounts == 2
\* number of /health fetches pending at once
MaxHealthChecks == 2
\* number of animation frames observed in one run, and the last tick of it
MaxDrawn == 2
MaxNowFrames == 2
\* number of timers RealHumanBodyAnimation may have armed at once
MaxTimers == 4
\* the clock of RealHumanBodyAnimation stops at MaxNowRHBA ticks
MaxNowRHBA == 4
\* onCompleteCalls counts the calls up to MaxCalls
MaxCalls == 3

(* ------------------------- program constants --------------------------- *)
\* the literal 3 in `connectionAttempts >= 3` / `connectionAttempts < 3`
MaxAttempts == 3

null == "null"
ErrUnable == "Unable to connect to translation service. Please check if the backend server is running."
ErrWebSocket == "WebSocket connection error. Please check if the backend server is running."
\* A text (message content, typed input, frame payload) is a sequence of
\* chunks; the chunk " " is one whitespace character, every other chunk is a
\* run of non-whitespace text.  A literal of the source is one chunk.
ErrNotConnected == "Not connected to translation service"
MsgConnected == [type |-> "system", content |-> <<"Connected to real-time translation service">>]
MsgDisconnected == [type |-> "system", content |-> <<"Disconnected from translation service">>]

(* ============================ players ================================== *)
(* State shared by the models of SimpleHumanVideo (with its copies          *)
(* RealHumanVideo and BodyLanguageVideo) and RealHumanBodyAnimation: the     *)
(* components declare the same state under the same names.  Time is counted  *)
(* in ticks of 100 ms; an instruction is represented by its duration in      *)
(* ticks, the only field the timing code reads.                              *)
VARIABLES
  instructions,     \* the instructions prop: sequence of durations
  currentStep,      \* useState(0), index from 0 as in the source
  isPlaying,        \* useState(true)
  progress,         \* useState(0), in units of 1/PctDen percent
  now,              \* Date.now(), in ticks
  timers,           \* the timers that are armed: kind, the currentStep and the
                    \* startTime captured by the callback's closure, and the
                    \* tick at which the timer last fired
  progressRef,      \* progressRef.current as an index into timers; 0 = null
                    \* or the handle of a timer that is no longer armed
  onCompleteCalls,  \* observation: number of calls of the onComplete prop
  played,           \* observation: ticks spent with isPlaying = true since
                    \* currentStep last changed
  animationSpeed,   \* RealHumanBodyAnimation: useState(1.0), in tenths
  speedSetAt        \* observation: the tick of the last handleSpeedChange

\* the state of the speed slider
spVars == <<animationSpeed, speedSetAt>>

plVars == <<instructions, currentStep, isPlaying, progress, now, timers,
            progressRef, onCompleteCalls, played, spVars>>

(* ============ BodyLanguageTranslator, SpeechToText, Settings =========== *)
VARIABLES
  translationMode,        \* BodyLanguageTranslator: useState('body-to-text')
  inputText,              \* useState('hello')
  isProcessing,           \* useState(false)
  bodyInstructions,       \* useState([]): 0 for [], else the request whose
                          \* response delivered the list
  translationResult,      \* useState(null): the request whose response it is
  translatorError,        \* the error state of BodyLanguageTranslator
  useRealHumanAnimation,  \* useState(true)
  requests,               \* every fetch issued so far, in order of issue: kind,
                          \* the text in its body, status
  entered,                \* observation: the text the user has entered last
  translateCalls,         \* observation: calls of handleTextToBodyTranslation
  isListening,            \* the isListening state SpeechToText is handed
  sessions,               \* the recognition objects on which start() was called
  recognitionRef,         \* recognitionRef.current: index into sessions, or 0
                          \* for an object that was never started
  refClosure,             \* the inputText of the render whose onTextReceived
                          \* the object in recognitionRef.current captured
  speechTimers,           \* pending 1 s auto-translate timers
  stops,                  \* observation: calls of stopListening
  settingsLife,           \* Settings: "absent" or "mounted"
  settings,               \* useState(defaults)
  storage,                \* localStorage['bodyLanguageTranslatorSettings']: <<>>
                          \* for no entry, else <<the stored JSON text>>
  isSaving,               \* useState(false)
  saveStatus,             \* useState(null)
  healthChecks,           \* pending fetches of /health: the mount that issued each
  mounts,                 \* observation: number of times Settings was mounted
  lastSaved,              \* observation: the settings of the last saveSettings
                          \* since the entry was last removed, the defaults if
                          \* there was none
  applied                 \* observation: the step and speed each animation
                          \* frame of RealHumanBodyAnimation used, in order

bltVars == <<translationMode, inputText, isProcessing, bodyInstructions,
             translationResult, translatorError, useRealHumanAnimation, requests,
             entered, translateCalls>>
sttVars == <<isListening, sessions, recognitionRef, refClosure, speechTimers, stops>>
setVars == <<settingsLife, settings, storage, isSaving, saveStatus, healthChecks,
             mounts, lastSaved>>
appVars == <<bltVars, sttVars, setVars, applied>>

(* ======================= RealTimeTranslation =========================== *)
VARIABLES
  life,                \* "new" (rendered, mount effect not yet run), "mounted", "unmounted"
  isConnected,         \* useState(false)
  isConnecting,        \* useState(true)
  connectionAttempts,  \* useState(0)
  error,               \* useState<string|null>(null)
  messages,            \* useState<Message[]>([])
  wsRef,               \* index into ws of wsRef.current, 0 = null
  ws,                  \* every WebSocket created so far, in creation order:
                       \*   readyState, attempts (the connectionAttempts value
                       \*   captured by the connectWebSocket closure that
                       \*   created it), manual (isManualRetry), opened
  retryTimers,         \* pending 2 s timers, named by the socket whose onerror armed them
  retryTimeoutRef,     \* retryTimeoutRef.current: the timer stored last, 0 = null
  errorTimers,         \* pending 1 s timers, named by the socket whose onerror armed them
  errorTimeoutRef,     \* errorTimeoutRef.current, 0 = null
  errNotices,          \* observation: per socket, how many times its handlers
                       \* (onclose, or the timer armed by onerror) called
                       \* setError with a connection-failure text
  currentTranslation,  \* useState<string>('')
  textInput,           \* useState('')
  sent,                \* observation: the frames handed to send(), in order,
                       \* each with the socket it was sent on
  arrived,             \* observation: the inbound frames, in arrival order
  submits              \* observation: number of calls of sendTextInput

\* the state of the message exchange
msgVars == <<currentTranslation, textInput, sent, arrived, submits>>

rtVars == <<life, isConnected, isConnecting, connectionAttempts, error, messages,
            wsRef, ws, retryTimers, retryTimeoutRef, errorTimers, errorTimeoutRef,
            errNotices, msgVars>>

Sockets == 1..Len(ws)
Live(s) == ws[s].readyState \in {"CONNECTING", "OPEN"}
LiveSockets == {s \in Sockets : Live(s)}

\* a state setter of a component that has been unmounted has no effect
SetState(cur, new) == IF life = "unmounted" THEN cur ELSE new

InitRT ==
  /\ life = "new"
  /\ isConnected = FALSE
  /\ isConnecting = TRUE
  /\ connectionAttempts = 0
  /\ error = null
  /\ messages = <<>>
  /\ wsRef = 0
  /\ ws = <<>>
  /\ retryTimers = {}
  /\ retryTimeoutRef = 0
  /\ errorTimers = {}
  /\ errorTimeoutRef = 0
  /\ errNotices = <<>>
  /\ currentTranslation = <<>>
  /\ textInput = <<>>
  /\ sent = <<>>
  /\ arrived = <<>>
  /\ submits = 0

\* connectWebSocket resetting the attempt count on every call
connectWebSocket_AlwaysResets(isManualRetry, captured) ==
  /\ Len(ws) < MaxSockets
  /\ isConnecting' = SetState(isConnecting, TRUE)
  /\ error' = SetState(error, null)
  /\ connectionAttempts' = SetState(connectionAttempts, 0)
  /\ ws' = Append(ws, [readyState |-> "CONNECTING", attempts |-> captured,
                       manual |-> isManualRetry, opened |-> FALSE])
  /\ errNotices' = Append(errNotices, 0)
  /\ wsRef' = Len(ws) + 1
  /\ UNCHANGED <<isConnected, messages, retryTimeoutRef, errorTimers, errorTimeoutRef>>

\* connectWebSocket(isManualRetry) as called from a closure whose
\* connectionAttempts is `captured`; the handlers of the new socket and the
\* retry timer they arm see that same captured value.
connectWebSocket(isManualRetry, captured) ==
  /\ Len(ws) < MaxSockets
  /\ isConnecting' = SetState(isConnecting, TRUE)
  /\ error' = SetState(error, null)
  /\ connectionAttempts' = IF isManualRetry THEN SetState(connectionAttempts, 0)
                                            ELSE connectionAttempts
  /\ ws' = Append(ws, [readyState |-> "CONNECTING", attempts |-> captured,
                       manual |-> isManualRetry, opened |-> FALSE])
  /\ errNotices' = Append(errNotices, 0)
  /\ wsRef' = Len(ws) + 1
  /\ UNCHANGED <<isConnected, messages, retryTimeoutRef, errorTimers, errorTimeoutRef>>

\* useEffect(() => { connectWebSocket(false); ... }, []) : the first render's closure
MountEffect ==
  /\ life = "new"
  /\ life' = "mounted"
  /\ connectWebSocket(FALSE, connectionAttempts)
  /\ UNCHANGED retryTimers
  /\ UNCHANGED <<msgVars, plVars, appVars>>

\* the Reconnect button, rendered when !isConnected && !isConnecting;
\* its onClick is the connectWebSocket of the current render
ReconnectClick ==
  /\ life = "mounted"
  /\ ~isConnected /\ ~isConnecting
  /\ connectWebSocket(TRUE, connectionAttempts)
  /\ UNCHANGED <<life, retryTimers>>
  /\ UNCHANGED <<msgVars, plVars, appVars>>

\* the 2 s timer armed by socket s's onerror: connectWebSocket(false) of the
\* same closure that created s
RetryTimerFire(s) ==
  /\ s \in retryTimers
  /\ connectWebSocket(FALSE, ws[s].attempts)
  /\ retryTimers' = retryTimers \ {s}
  /\ UNCHANGED life
  /\ UNCHANGED <<msgVars, plVars, appVars>>

\* ws.onopen
onopen(s) ==
  /\ isConnected' = SetState(isConnected, TRUE)
  /\ isConnecting' = SetState(isConnecting, FALSE)
  /\ connectionAttempts' = SetState(connectionAttempts, 0)
  /\ error' = SetState(error, null)
  /\ messages' = SetState(messages, Append(messages, MsgConnected))

\* ws.onerror, without its setIsConnecting(false): the retry branch or the
\* delayed-error branch, chosen on the connectionAttempts of the closure
onerror(s) ==
  IF ws[s].attempts < MaxAttempts
  THEN /\ connectionAttempts' = SetState(connectionAttempts, connectionAttempts + 1)
       /\ retryTimers' = retryTimers \cup {s}
       /\ retryTimeoutRef' = s
       /\ UNCHANGED <<errorTimers, errorTimeoutRef>>
  ELSE /\ errorTimers' = errorTimers \cup {s}
       /\ errorTimeoutRef' = s
       /\ UNCHANGED <<connectionAttempts, retryTimers, retryTimeoutRef>>

\* ws.onclose
onclose(s) ==
  /\ isConnected' = SetState(isConnected, FALSE)
  /\ isConnecting' = SetState(isConnecting, FALSE)
  /\ messages' = SetState(messages, Append(messages, MsgDisconnected))
  /\ IF ws[s].attempts >= MaxAttempts
     THEN /\ error' = SetState(error, ErrUnable)
          /\ errNotices' = SetState(errNotices, [errNotices EXCEPT ![s] = @ + 1])
     ELSE UNCHANGED <<error, errNotices>>

\* the connection of socket s is established: readyState OPEN, open event
WsOpen(s) ==
  /\ ws[s].readyState = "CONNECTING"
  /\ ws' = [ws EXCEPT ![s].readyState = "OPEN", ![s].opened = TRUE]
  /\ onopen(s)
  /\ UNCHANGED <<life, wsRef, retryTimers, retryTimeoutRef, errorTimers,
                 errorTimeoutRef, errNotices>>
  /\ UNCHANGED <<msgVars, plVars, appVars>>

\* the connection of socket s fails (refused, dropped, or closed before it
\* was established): one task sets readyState CLOSED and fires error, then close
WsFail(s) ==
  /\ \/ ws[s].readyState \in {"CONNECTING", "OPEN"}
     \/ ws[s].readyState = "CLOSING" /\ ~ws[s].opened
  /\ ws' = [ws EXCEPT ![s].readyState = "CLOSED"]
  /\ onerror(s)
  /\ onclose(s)
  /\ UNCHANGED <<life, wsRef>>
  /\ UNCHANGED <<msgVars, plVars, appVars>>

\* an established connection is closed cleanly (by the server, or after
\* close() was called on it): close event only
WsClose(s) ==
  /\ ws[s].opened
  /\ ws[s].readyState \in {"OPEN", "CLOSING"}
  /\ ws' = [ws EXCEPT ![s].readyState = "CLOSED"]
  /\ onclose(s)
  /\ UNCHANGED <<life, wsRef, connectionAttempts, retryTimers, retryTimeoutRef,
                 errorTimers, errorTimeoutRef>>
  /\ UNCHANGED <<msgVars, plVars, appVars>>

\* the 1 s timer armed by socket s's onerror
ErrorTimerFire(s) ==
  /\ s \in errorTimers
  /\ errorTimers' = errorTimers \ {s}
  /\ error' = SetState(error, ErrWebSocket)
  /\ errNotices' = SetState(errNotices, [errNotices EXCEPT ![s] = @ + 1])
  /\ UNCHANGED <<life, isConnected, isConnecting, connectionAttempts, messages,
                 wsRef, ws, retryTimers, retryTimeoutRef, errorTimeoutRef>>
  /\ UNCHANGED <<msgVars, plVars, appVars>>

\* <Alert onClose={() => setError(null)}>, rendered when error && !isConnecting
DismissError ==
  /\ life = "mounted"
  /\ error # null /\ ~isConnecting
  /\ error' = null
  /\ UNCHANGED <<life, isConnected, isConnecting, connectionAttempts, messages,
                 wsRef, ws, retryTimers, retryTimeoutRef, errorTimers,
                 errorTimeoutRef, errNotices>>
  /\ UNCHANGED <<msgVars, plVars, appVars>>

\* the cleanup of the mount effect: close wsRef.current, clear the timers
\* whose handles are in retryTimeoutRef.current and errorTimeoutRef.current
Unmount ==
  /\ life = "mounted"
  /\ life' = "unmounted"
  /\ ws' = IF wsRef # 0 /\ Live(wsRef)
           THEN [ws EXCEPT ![wsRef].readyState = "CLOSING"]
           ELSE ws
  /\ retryTimers' = retryTimers \ {retryTimeoutRef}
  /\ errorTimers' = errorTimers \ {errorTimeoutRef}
  /\ UNCHANGED <<isConnected, isConnecting, connectionAttempts, error, messages,
                 wsRef, retryTimeoutRef, errorTimeoutRef, errNotices>>
  /\ UNCHANGED <<msgVars, plVars, appVars>>

NextRT ==
  \/ MountEffect
  \/ ReconnectClick
  \/ \E s \in Sockets : RetryTimerFire(s)
  \/ \E s \in Sockets : WsOpen(s)
  \/ \E s \in Sockets : WsFail(s)
  \/ \E s \in Sockets : WsClose(s)
  \/ \E s \in Sockets : ErrorTimerFire(s)
  \/ DismissError
  \/ Unmount

(* ------------------------ the message exchange ------------------------- *)
\* the chunks of a typed text
Chars == {" ", "a"}
\* the values of the input field the model tries
Texts == UNION {[1..n -> Chars] : n \in 0..MaxText}

RECURSIVE TrimStart(_)
TrimStart(t) == IF t # <<>> /\ Head(t) = " " THEN TrimStart(Tail(t)) ELSE t

RECURSIVE TrimEnd(_)
TrimEnd(t) ==
  IF t # <<>> /\ t[Len(t)] = " " THEN TrimEnd(SubSeq(t, 1, Len(t) - 1)) ELSE t

\* trimming that leaves trailing whitespace in place
Trim_StartOnly(t) == TrimStart(t)

\* String.prototype.trim
Trim(t) == TrimEnd(TrimStart(t))

\* the parsed inbound frames the model tries: two translations, a detected
\* gesture, a server error and a frame of a type the switch does not know
InboundData ==
  { [type |-> "translation", text |-> <<"hello">>],
    [type |-> "translation", text |-> <<"thank", " ", "you">>],
    [type |-> "gesture_detected", gesture |-> "wave"],
    [type |-> "error", message |-> "Translation failed"],
    [type |-> "status"] }

\* addMessage with the new message put in front
addMessage_Prepends(content, type) ==
  messages' = SetState(messages, <<[type |-> type, content |-> content]>> \o messages)

\* addMessage: setMessages(prev => [...prev, message])
addMessage(content, type) ==
  messages' = SetState(messages, Append(messages, [type |-> type, content |-> content]))

\* a default branch that reports the frame as an error
DefaultCase_SetsError ==
  /\ error' = SetState(error, "Unknown message type")
  /\ UNCHANGED <<currentTranslation, messages>>

\* default: console.log('Unknown message type:', data)
DefaultCase == UNCHANGED <<currentTranslation, messages, error>>

\* handleWebSocketMessage: switch (data.type)
handleWebSocketMessage(data) ==
  CASE data.type = "translation" ->
         /\ currentTranslation' = SetState(currentTranslation, data.text)
         /\ addMessage(data.text, "translation")
         /\ UNCHANGED error
    [] data.type = "gesture_detected" ->
         /\ addMessage(<<"Gesture detected:", " ", data.gesture>>, "system")
         /\ UNCHANGED <<currentTranslation, error>>
    [] data.type = "error" ->
         /\ error' = SetState(error, data.message)
         /\ UNCHANGED <<currentTranslation, messages>>
    [] OTHER -> DefaultCase

\* ws.onmessage of socket s for a frame whose JSON text parses to data; message
\* events are delivered only while the socket is OPEN
onmessage(s, data) ==
  /\ ws[s].readyState = "OPEN"
  /\ Len(arrived) < MaxFrames
  /\ arrived' = Append(arrived, data)
  /\ handleWebSocketMessage(data)
  /\ UNCHANGED <<life, isConnected, isConnecting, connectionAttempts, wsRef, ws,
                 retryTimers, retryTimeoutRef, errorTimers, errorTimeoutRef,
                 errNotices, textInput, sent, submits>>
  /\ UNCHANGED <<plVars, appVars>>

\* sendTextInput(text)
sendTextInput(text) ==
  IF Trim(text) # <<>> /\ wsRef # 0 /\ ws[wsRef].readyState = "OPEN"
  THEN /\ sent' = Append(sent, [socket |-> wsRef,
                                frame |-> [type |-> "text_input", text |-> Trim(text)]])
       /\ addMessage(Trim(text), "user")
       /\ textInput' = SetState(textInput, <<>>)
  ELSE UNCHANGED <<sent, messages, textInput>>

\* the Enter key (handleKeyPress) or the Send button: sendTextInput(textInput)
SubmitText ==
  /\ life = "mounted"
  /\ submits < MaxSubmits
  /\ submits' = submits + 1
  /\ sendTextInput(textInput)
  /\ UNCHANGED <<life, isConnected, isConnecting, connectionAttempts, error, wsRef,
                 ws, retryTimers, retryTimeoutRef, errorTimers, errorTimeoutRef,
                 errNotices, currentTranslation, arrived>>
  /\ UNCHANGED <<plVars, appVars>>

\* the user edits the input field: onChange={(e) => setTextInput(e.target.value)}
TypeText(t) ==
  /\ life = "mounted"
  /\ t # textInput
  /\ textInput' = t
  /\ UNCHANGED <<life, isConnected, isConnecting, connectionAttempts, error,
                 messages, wsRef, ws, retryTimers, retryTimeoutRef, errorTimers,
                 errorTimeoutRef, errNotices, currentTranslation, sent, arrived,
                 submits>>
  /\ UNCHANGED <<plVars, appVars>>

\* the connection events of a run of at most MaxMsgSockets sockets (too few
\* for an attempt made with the budget exhausted, so no 1 s error timer)
NextConn ==
  \/ MountEffect
  \/ Len(ws) < MaxMsgSockets /\ ReconnectClick
  \/ \E s \in Sockets : Len(ws) < MaxMsgSockets /\ RetryTimerFire(s)
  \/ \E s \in Sockets : WsOpen(s)
  \/ \E s \in Sockets : WsFail(s)
  \/ \E s \in Sockets : WsClose(s)
  \/ Unmount

\* the component receiving frames
NextInbound ==
  \/ NextConn
  \/ DismissError
  \/ \E s \in Sockets, data \in InboundData : onmessage(s, data)

\* the component with its text input
NextSend ==
  \/ NextConn
  \/ SubmitText
  \/ \E t \in Texts : TypeText(t)

(* ------------------------ player helpers ------------------------------- *)
Min(a, b) == IF a <= b THEN a ELSE b

RECURSIVE GCD(_, _)
GCD(a, b) == IF b = 0 THEN a ELSE GCD(b, a % b)

RECURSIVE LCMUpTo(_)
LCMUpTo(n) == IF n <= 1 THEN 1 ELSE (LCMUpTo(n - 1) * n) \div GCD(LCMUpTo(n - 1), n)

\* progress is held as a multiple of 1/PctDen percent; PctDen is divisible by
\* every duration and every total duration, so the divisions below are exact
PctDen == LCMUpTo(MaxLen * MaxDur)
\* the progress value 100
Full == 100 * PctDen

RECURSIVE SumTo(_, _)
\* instructions.slice(0, n).reduce((sum, i) => sum + i.duration, 0)
SumTo(ins, n) == IF n = 0 THEN 0 ELSE SumTo(ins, n - 1) + ins[n]

InstructionLists ==
  UNION {[1..n -> 1..MaxDur] : n \in 1..MaxLen}

\* the percentage without the cap at 100
NewProgress_NoCap(elapsed, duration) == (elapsed * Full) \div duration

\* Math.min((elapsed / duration) * 100, 100)
NewProgress(elapsed, duration) == Min((elapsed * Full) \div duration, Full)

\* the armed timers ts without the i-th
RemoveAt(ts, i) == [j \in 1..(Len(ts) - 1) |-> IF j < i THEN ts[j] ELSE ts[j + 1]]

\* `if (progressRef.current) clearInterval(progressRef.current)` (clearTimeout
\* in RealHumanBodyAnimation; both clear a timer of either kind)
ClearTimer(ts, ref) == IF ref \in 1..Len(ts) THEN RemoveAt(ts, ref) ELSE ts

ClearRef == ClearTimer(timers, progressRef)

(* ------------------------- SimpleHumanVideo ---------------------------- *)

\* the guard with its isPlaying test left out
EffectArms_IgnoresPlaying(playing, step) == step < Len(instructions)

\* `if (isPlaying && currentStep < instructions.length)` of the progress effect
EffectArms(playing, step) == playing /\ step < Len(instructions)

\* the progress effect as re-run for the state (step, playing): the cleanup
\* of the previous run, then the body
progressEffect(step, playing) ==
  IF EffectArms(playing, step)
  THEN /\ timers' = Append(ClearRef, [kind |-> "interval", step |-> step,
                                      startTime |-> now, last |-> now])
       /\ progressRef' = Len(ClearRef) + 1
  ELSE /\ timers' = ClearRef
       /\ progressRef' = 0

\* a re-render: the effect re-runs when one of its dependencies
\* [currentStep, isPlaying, currentInstruction, instructions.length, onComplete] changed
Rerender(step, playing) ==
  IF <<step, playing>> # <<currentStep, isPlaying>>
  THEN progressEffect(step, playing)
  ELSE UNCHANGED <<timers, progressRef>>

InitSHV ==
  /\ instructions \in InstructionLists
  /\ currentStep = 0
  /\ isPlaying = TRUE
  /\ progress = 0
  /\ now = 0
  /\ timers = <<[kind |-> "interval", step |-> 0, startTime |-> 0, last |-> 0]>>
  /\ progressRef = 1
  /\ onCompleteCalls = 0
  /\ played = 0
  /\ animationSpeed = 10
  /\ speedSetAt = 0

\* the component mounted with an empty list: isPlaying starts true and the
\* progress effect arms nothing (currentStep < instructions.length fails)
InitSHVEmpty ==
  /\ instructions = <<>>
  /\ currentStep = 0
  /\ isPlaying = TRUE
  /\ progress = 0
  /\ now = 0
  /\ timers = <<>>
  /\ progressRef = 0
  /\ onCompleteCalls = 0
  /\ played = 0
  /\ animationSpeed = 10
  /\ speedSetAt = 0

\* 100 ms of wall-clock time pass
TimePasses ==
  /\ now < MaxNow
  /\ now' = now + 1
  /\ played' = IF isPlaying THEN played + 1 ELSE played
  /\ UNCHANGED <<instructions, currentStep, isPlaying, progress, timers,
                 progressRef, onCompleteCalls>>
  /\ UNCHANGED <<spVars, rtVars, appVars>>

\* the setInterval callback of the progress effect (every 50 ms)
IntervalCallback(t) ==
  /\ timers[t].kind = "interval"
  /\ LET step == timers[t].step
         duration == instructions[step + 1]
         elapsed == now - timers[t].startTime
         newProgress == NewProgress(elapsed, duration)
     IN IF newProgress >= Full
        THEN IF step < Len(instructions) - 1
             THEN /\ currentStep' = step + 1
                  /\ progress' = 0
                  /\ played' = 0
                  /\ Rerender(step + 1, isPlaying)
                  /\ UNCHANGED <<isPlaying, onCompleteCalls>>
             ELSE /\ progress' = newProgress
                  /\ isPlaying' = FALSE
                  /\ onCompleteCalls' = onCompleteCalls + 1
                  /\ Rerender(currentStep, FALSE)
                  /\ UNCHANGED <<currentStep, played>>
        ELSE /\ progress' = newProgress
             /\ UNCHANGED <<currentStep, isPlaying, onCompleteCalls, played,
                            timers, progressRef>>
  /\ UNCHANGED <<instructions, now>>
  /\ UNCHANGED <<spVars, rtVars, appVars>>

\* handlePlayPause: setIsPlaying(!isPlaying)
handlePlayPause ==
  /\ isPlaying' = ~isPlaying
  /\ Rerender(currentStep, ~isPlaying)
  /\ UNCHANGED <<instructions, currentStep, progress, now, onCompleteCalls, played>>
  /\ UNCHANGED <<spVars, rtVars, appVars>>

\* handleReplay: setCurrentStep(0); setProgress(0); setIsPlaying(true)
handleReplay ==
  /\ currentStep' = 0
  /\ progress' = 0
  /\ isPlaying' = TRUE
  /\ played' = 0
  /\ Rerender(0, TRUE)
  /\ UNCHANGED <<instructions, now, onCompleteCalls>>
  /\ UNCHANGED <<spVars, rtVars, appVars>>

\* BodyLanguageTranslator stores the result of a new translation in
\* bodyInstructions and renders again; the player stays mounted while the list
\* is not empty.  The player gets the new instructions prop and a new
\* onComplete function, so its progress effect re-runs (cleanup, then body)
\* with the currentStep and isPlaying it has: nothing resets them.
newInstructions(list) ==
  /\ list # instructions
  /\ instructions' = list
  /\ IF isPlaying /\ currentStep < Len(list)
     THEN /\ timers' = Append(ClearRef, [kind |-> "interval", step |-> currentStep,
                                         startTime |-> now, last |-> now])
          /\ progressRef' = Len(ClearRef) + 1
     ELSE /\ timers' = ClearRef
          /\ progressRef' = 0
  /\ UNCHANGED <<currentStep, isPlaying, progress, now, onCompleteCalls, played>>
  /\ UNCHANGED <<spVars, rtVars, appVars>>

\* a play-through nobody interrupts
NextPlay ==
  \/ TimePasses
  \/ \E t \in 1..Len(timers) : IntervalCallback(t)

\* a play-through with the play/pause button
NextPlayer ==
  \/ NextPlay
  \/ handlePlayPause

\* a play-through with the play/pause and replay buttons
NextReplay ==
  \/ NextPlayer
  \/ handleReplay

\* play-throughs during which new translations arrive
NextTranslate ==
  \/ NextPlay
  \/ \E list \in InstructionLists : newInstructions(list)

(* ----------------------- RealHumanBodyAnimation ------------------------- *)

\* the two timer effects as re-run for the state (step, playing), with ts
\* armed and ref in progressRef.current; prog is the progress the handler set.
\* Both cleanups run first (they clear the same handle), then the body of the
\* animation-progression effect (setInterval, 100 ms), then the body of the
\* progress-management effect, whose first updateProgress() runs at once:
\* setProgress of elapsed 0, then setTimeout(updateProgress, 16).  Each body
\* stores its handle in progressRef.current.
RHBA_Effects(ts, ref, step, playing, prog) ==
  LET cleared == ClearTimer(ts, ref)
      armsA == Len(instructions) # 0 /\ playing
      armsB == playing /\ step < Len(instructions)
      afterA == IF armsA
                THEN Append(cleared, [kind |-> "interval100", step |-> step,
                                      startTime |-> 0, last |-> now])
                ELSE cleared
      refA == IF armsA THEN Len(afterA) ELSE 0
      afterB == IF armsB
                THEN Append(afterA, [kind |-> "timeout", step |-> step,
                                     startTime |-> now, last |-> now])
                ELSE afterA
      refB == IF armsB THEN Len(afterB) ELSE refA
  IN [timers |-> afterB, progressRef |-> refB,
      progress |-> IF armsB THEN NewProgress(0, instructions[step + 1]) ELSE prog]

\* a re-render: the effects re-run when currentStep or isPlaying changed
\* (deps [instructions, isPlaying, currentStep, onComplete] and
\* [currentStep, isPlaying, currentInstruction, instructions.length, onComplete])
RHBA_Rerender(ts, ref, step, playing, prog) ==
  IF <<step, playing>> # <<currentStep, isPlaying>>
  THEN RHBA_Effects(ts, ref, step, playing, prog)
  ELSE [timers |-> ts, progressRef |-> ref, progress |-> prog]

\* commit the outcome r of a re-render
RHBA_Commit(r) ==
  /\ Len(r.timers) <= MaxTimers
  /\ timers' = r.timers
  /\ progressRef' = r.progressRef
  /\ progress' = r.progress

InitRHBA ==
  /\ instructions \in InstructionLists
  /\ currentStep = 0
  /\ isPlaying = TRUE
  /\ progress = 0
  /\ now = 0
  /\ timers = <<[kind |-> "interval100", step |-> 0, startTime |-> 0, last |-> 0],
                [kind |-> "timeout", step |-> 0, startTime |-> 0, last |-> 0]>>
  /\ progressRef = 2
  /\ onCompleteCalls = 0
  /\ played = 0
  /\ animationSpeed = 10
  /\ speedSetAt = 0

\* 100 ms of wall-clock time pass (played is not observed for this component)
RHBA_TimePasses ==
  /\ now < MaxNowRHBA
  /\ now' = now + 1
  /\ UNCHANGED <<instructions, currentStep, isPlaying, progress, timers,
                 progressRef, onCompleteCalls, played>>
  /\ UNCHANGED <<spVars, rtVars, appVars>>

\* one more call of onComplete
Called == Min(onCompleteCalls + 1, MaxCalls)

\* the first i with currentTime <= accumulatedTime, for progress value p
\* (currentTime = (p / 100) * totalDuration)
RHBA_StepFor(p) ==
  LET total == SumTo(instructions, Len(instructions))
  IN CHOOSE i \in 0..(Len(instructions) - 1) :
       /\ p * total <= SumTo(instructions, i + 1) * Full
       /\ \A j \in 0..(i - 1) : p * total > SumTo(instructions, j + 1) * Full

\* the setInterval callback of the animation-progression effect: at most one
\* firing per 100 ms
RHBA_IntervalCallback(t) ==
  /\ timers[t].kind = "interval100"
  /\ now > timers[t].last
  /\ LET total == SumTo(instructions, Len(instructions))
         newProgress == progress + Full \div total
         fired == [timers EXCEPT ![t].last = now]
     IN IF newProgress >= Full
        THEN /\ onCompleteCalls' = Called
             /\ progress' = Full
             /\ timers' = fired
             /\ UNCHANGED <<currentStep, progressRef, played>>
        ELSE LET i == RHBA_StepFor(newProgress)
                 step == IF i # timers[t].step THEN i ELSE currentStep
             IN /\ currentStep' = step
                /\ RHBA_Commit(RHBA_Rerender(fired, progressRef, step, isPlaying, newProgress))
                /\ UNCHANGED <<onCompleteCalls, played>>
  /\ UNCHANGED <<instructions, isPlaying, now>>
  /\ UNCHANGED <<spVars, rtVars, appVars>>

\* updateProgress as the setTimeout callback of the progress-management effect
RHBA_TimeoutCallback(t) ==
  /\ timers[t].kind = "timeout"
  /\ LET step == timers[t].step
         duration == instructions[step + 1]
         elapsed == now - timers[t].startTime
         newProgress == NewProgress(elapsed, duration)
         spent == RemoveAt(timers, t)
         ref == IF progressRef = t THEN 0
                ELSE IF progressRef > t THEN progressRef - 1 ELSE progressRef
     IN IF newProgress >= Full
        THEN IF step < Len(instructions) - 1
             THEN /\ currentStep' = step + 1
                  /\ RHBA_Commit(RHBA_Rerender(spent, ref, step + 1, isPlaying, 0))
                  /\ UNCHANGED <<isPlaying, onCompleteCalls, played>>
             ELSE /\ isPlaying' = FALSE
                  /\ onCompleteCalls' = Called
                  /\ RHBA_Commit(RHBA_Rerender(spent, ref, currentStep, FALSE, newProgress))
                  /\ UNCHANGED <<currentStep, played>>
        ELSE /\ progress' = newProgress
             /\ progressRef' = t
             /\ UNCHANGED <<currentStep, isPlaying, onCompleteCalls, played, timers>>
  /\ UNCHANGED <<instructions, now>>
  /\ UNCHANGED <<spVars, rtVars, appVars>>

\* handlePlayPause: setIsPlaying(!isPlaying)
RHBA_handlePlayPause ==
  /\ isPlaying' = ~isPlaying
  /\ RHBA_Commit(RHBA_Rerender(timers, progressRef, currentStep, ~isPlaying, progress))
  /\ UNCHANGED <<instructions, currentStep, now, onCompleteCalls, played>>
  /\ UNCHANGED <<spVars, rtVars, appVars>>

\* handleReplay: setCurrentStep(0); setProgress(0); setIsPlaying(true)
RHBA_handleReplay ==
  /\ currentStep' = 0
  /\ isPlaying' = TRUE
  /\ RHBA_Commit(RHBA_Rerender(timers, progressRef, 0, TRUE, 0))
  /\ UNCHANGED <<instructions, now, onCompleteCalls, played>>
  /\ UNCHANGED <<spVars, rtVars, appVars>>

\* the positions of the speed slider the model tries (min 0.5, max 2.0), in tenths
SpeedValues == {5, 10, 20}

\* handleSpeedChange: setAnimationSpeed(newValue); animationSpeed is in no
\* dependency list of the timer effects, so no effect re-runs
handleSpeedChange(newValue) ==
  /\ newValue # animationSpeed
  /\ animationSpeed' = newValue
  /\ speedSetAt' = now
  /\ UNCHANGED <<instructions, currentStep, isPlaying, progress, now, timers,
                 progressRef, onCompleteCalls, played>>
  /\ UNCHANGED <<rtVars, appVars>>

\* a play-through nobody interrupts
NextAnimation ==
  \/ RHBA_TimePasses
  \/ \E t \in 1..Len(timers) : RHBA_IntervalCallback(t)
  \/ \E t \in 1..Len(timers) : RHBA_TimeoutCallback(t)

\* a play-through during which the speed slider is moved
NextSpeed ==
  \/ NextAnimation
  \/ \E v \in SpeedValues : handleSpeedChange(v)

\* The animate loop is created once, by the scene effect (deps []), and
\* calls the updateAdvancedAnimation of the first render on every frame; that
\* function reads currentInstruction and animationSpeed from its closure:
\* instructions[currentStep] with currentStep = useState(0), and
\* animationSpeed = useState(1.0).
FirstRenderStep == 0
FirstRenderSpeed == 10

\* one requestAnimationFrame callback: updateAdvancedAnimation applies the
\* gesture of the instruction it sees at the speed it sees
RHBA_AnimationFrame ==
  /\ applied' = Append(applied, <<FirstRenderStep, FirstRenderSpeed>>)
  /\ UNCHANGED <<plVars, rtVars, bltVars, sttVars, setVars>>

\* a play-through with the speed slider, drawn frame by frame
NextFrames ==
  \/ now < MaxNowFrames /\ RHBA_TimePasses
  \/ \E t \in 1..Len(timers) : RHBA_IntervalCallback(t)
  \/ \E t \in 1..Len(timers) : RHBA_TimeoutCallback(t)
  \/ \E v \in SpeedValues : handleSpeedChange(v)
  \/ Len(applied) < MaxDrawn /\ RHBA_AnimationFrame

NextRHBA ==
  \/ RHBA_TimePasses
  \/ \E t \in 1..Len(timers) : RHBA_IntervalCallback(t)
  \/ \E t \in 1..Len(timers) : RHBA_TimeoutCallback(t)
  \/ RHBA_handlePlayPause

(* ============ BodyLanguageTranslator, SpeechToText, Settings =========== *)
ErrEnterText == "Please enter some text to translate"
ErrHttp == "HTTP error! status: 500"

\* the fields of SettingsData the model keeps: one select, one slider (in
\* tenths), one switch and the free text field
DefaultSettings ==
  [language |-> "en", confidenceThreshold |-> 7, audioEnabled |-> TRUE,
   apiEndpoint |-> "http://localhost:8000"]

\* the state of BodyLanguageTranslator after construction; 0 stands for the
\* empty bodyInstructions and the null translationResult
InitTranslator ==
  /\ translationMode = "body-to-text"
  /\ inputText = <<"hello">>
  /\ isProcessing = FALSE
  /\ bodyInstructions = 0
  /\ translationResult = 0
  /\ translatorError = null
  /\ useRealHumanAnimation = TRUE
  /\ requests = <<>>
  /\ entered = <<>>
  /\ translateCalls = 0

\* SpeechToText is not on the page in body-to-text mode
InitSpeech ==
  /\ isListening = FALSE
  /\ sessions = <<>>
  /\ recognitionRef = 0
  /\ refClosure = <<"hello">>
  /\ speechTimers = <<>>
  /\ stops = 0

\* the Settings page has not been visited and nothing is stored
SettingsAbsent ==
  /\ settingsLife = "absent"
  /\ settings = DefaultSettings
  /\ storage = <<>>
  /\ isSaving = FALSE
  /\ saveStatus = null
  /\ healthChecks = <<>>
  /\ mounts = 0
  /\ lastSaved = DefaultSettings

\* no animation frame has been drawn
NoFrame == applied = <<>>

\* the pages the specification at hand does not visit
AppAbsent == InitTranslator /\ InitSpeech /\ SettingsAbsent /\ NoFrame

\* the player BodyLanguageTranslator shows for a translation: the emoji
\* player or the 3D animation, as the Animation Type toggle says
InitEither ==
  /\ translationMode = "text-to-body"
  /\ inputText = <<"hello">>
  /\ isProcessing = FALSE
  /\ bodyInstructions = 1
  /\ translationResult = 0
  /\ translatorError = null
  /\ useRealHumanAnimation \in BOOLEAN
  /\ requests = <<[kind |-> "text", text |-> <<"hello">>, status |-> "ok"]>>
  /\ entered = <<>>
  /\ translateCalls = 1
  /\ IF useRealHumanAnimation THEN InitRHBA ELSE InitSHV
  /\ Len(instructions) <= MaxLenBoth
  /\ \A i \in 1..Len(instructions) : instructions[i] <= MaxDurBoth
  /\ InitSpeech /\ SettingsAbsent /\ NoFrame

\* the timer callbacks and the buttons of whichever player is shown
NextEither ==
  \/ ~useRealHumanAnimation /\ now < MaxNowBoth /\ TimePasses
  \/ ~useRealHumanAnimation /\ \E t \in 1..Len(timers) : IntervalCallback(t)
  \/ ~useRealHumanAnimation /\ handlePlayPause
  \/ ~useRealHumanAnimation /\ handleReplay
  \/ useRealHumanAnimation /\ now < MaxNowBoth /\ RHBA_TimePasses
  \/ useRealHumanAnimation /\ \E t \in 1..Len(timers) : RHBA_IntervalCallback(t)
  \/ useRealHumanAnimation /\ \E t \in 1..Len(timers) : RHBA_TimeoutCallback(t)
  \/ useRealHumanAnimation /\ RHBA_handlePlayPause
  \/ useRealHumanAnimation /\ RHBA_handleReplay

(* ----------------------- BodyLanguageTranslator ------------------------ *)
\* the state a change of which re-renders BodyLanguageTranslator
TranslatorState ==
  <<translationMode, inputText, isProcessing, bodyInstructions,
    translationResult, translatorError, useRealHumanAnimation, isListening>>

\* The effect of SpeechToText (deps [onTextReceived, onListeningChange], no
\* cleanup).  handleTextToBodyTranslation is a new function on every render
\* of BodyLanguageTranslator, so handleSpeechTextReceived is too, and the
\* effect runs after every such render (and on mount): it creates a new
\* recognition object, whose handlers capture this render's onTextReceived,
\* and stores it in recognitionRef.current.
SpeechToTextEffect ==
  IF translationMode' = "text-to-body" /\ TranslatorState' # TranslatorState
    THEN /\ recognitionRef' = 0
         /\ refClosure' = inputText'
    ELSE UNCHANGED <<recognitionRef, refClosure>>

\* the texts the user types or speaks
InputTexts == UNION {[1..n -> Chars] : n \in 0..MaxInput}

\* the two mode buttons
setTranslationMode(mode) ==
  /\ mode # translationMode
  /\ translationMode' = mode
  /\ UNCHANGED <<inputText, isProcessing, bodyInstructions, translationResult,
                 translatorError, useRealHumanAnimation, requests, entered,
                 translateCalls>>
  /\ UNCHANGED <<isListening, sessions, speechTimers, stops>>
  /\ SpeechToTextEffect
  /\ UNCHANGED <<setVars, applied, rtVars, plVars>>

\* the user edits the text field
setInputText(t) ==
  /\ translationMode = "text-to-body"
  /\ inputText' = t
  /\ entered' = t
  /\ UNCHANGED <<translationMode, isProcessing, bodyInstructions,
                 translationResult, translatorError, useRealHumanAnimation,
                 requests, translateCalls>>
  /\ UNCHANGED <<isListening, sessions, speechTimers, stops>>
  /\ SpeechToTextEffect
  /\ UNCHANGED <<setVars, applied, rtVars, plVars>>

\* handleTextToBodyTranslation up to its await; text is the inputText of the
\* render that created the function being called
handleTextToBodyTranslation(text) ==
  /\ translateCalls' = translateCalls + 1
  /\ IF Trim(text) = <<>>
       THEN /\ translatorError' = ErrEnterText
            /\ UNCHANGED <<isProcessing, requests>>
       ELSE /\ isProcessing' = TRUE
            /\ translatorError' = null
            /\ requests' = Append(requests,
                 [kind |-> "text", text |-> text, status |-> "pending"])
  /\ UNCHANGED <<translationMode, inputText, bodyInstructions,
                 translationResult, useRealHumanAnimation, entered>>

\* the Translate button, disabled={isProcessing || !inputText.trim()}
TranslateClick ==
  /\ translationMode = "text-to-body"
  /\ ~isProcessing
  /\ Trim(inputText) # <<>>
  /\ translateCalls < MaxTranslateCalls
  /\ Len(requests) < MaxRequests
  /\ handleTextToBodyTranslation(inputText)
  /\ UNCHANGED <<isListening, sessions, speechTimers, stops>>
  /\ SpeechToTextEffect
  /\ UNCHANGED <<setVars, applied, rtVars, plVars>>

\* processVideo up to its await
processVideo ==
  /\ isProcessing' = TRUE
  /\ translatorError' = null
  /\ requests' = Append(requests,
       [kind |-> "video", text |-> <<>>, status |-> "pending"])
  /\ UNCHANGED <<translationMode, inputText, bodyInstructions,
                 translationResult, useRealHumanAnimation, entered,
                 translateCalls>>

\* the file input of the camera panel; it is never disabled
handleFileUpload ==
  /\ translationMode = "body-to-text"
  /\ Len(requests) < MaxRequests
  /\ processVideo
  /\ UNCHANGED sttVars
  /\ UNCHANGED <<setVars, applied, rtVars, plVars>>

\* the rest of processVideo / handleTextToBodyTranslation: the response of
\* request i arrives, ok or not
Response(i, ok) ==
  /\ requests[i].status = "pending"
  /\ requests' = [requests EXCEPT ![i].status = IF ok THEN "ok" ELSE "failed"]
  /\ IF ok
       THEN /\ translationResult' =
                 IF requests[i].kind = "video" THEN i ELSE translationResult
            /\ bodyInstructions' =
                 IF requests[i].kind = "text" THEN i ELSE bodyInstructions
            /\ UNCHANGED translatorError
       ELSE /\ translatorError' = ErrHttp
            /\ UNCHANGED <<translationResult, bodyInstructions>>
  /\ isProcessing' = FALSE
  /\ UNCHANGED <<translationMode, inputText, useRealHumanAnimation, entered,
                 translateCalls>>
  /\ UNCHANGED <<isListening, sessions, speechTimers, stops>>
  /\ SpeechToTextEffect
  /\ UNCHANGED <<setVars, applied, rtVars, plVars>>

(* --------------------------- SpeechToText ------------------------------ *)
Listening(k) == sessions[k].state \in {"starting", "active"}

\* Start Listening, disabled={!isSupported || isListening}: start() on the
\* object in recognitionRef.current (start() on an object that is already
\* started throws and changes nothing)
startListening ==
  /\ translationMode = "text-to-body"
  /\ ~isListening
  /\ IF recognitionRef = 0
       THEN /\ Len(sessions) < MaxSessions
            /\ sessions' = Append(sessions,
                 [closure |-> refClosure, state |-> "starting"])
            /\ recognitionRef' = Len(sessions) + 1
       ELSE /\ sessions[recognitionRef].state = "ended"
            /\ sessions' = [sessions EXCEPT ![recognitionRef].state = "starting"]
            /\ UNCHANGED recognitionRef
  /\ UNCHANGED <<isListening, refClosure, speechTimers, stops>>
  /\ UNCHANGED <<bltVars, setVars, applied, rtVars, plVars>>

\* recognition.onstart of started object k: onListeningChange(true)
onstart(k) ==
  /\ sessions[k].state = "starting"
  /\ sessions' = [sessions EXCEPT ![k].state = "active"]
  /\ isListening' = TRUE
  /\ UNCHANGED <<speechTimers, stops>>
  /\ UNCHANGED bltVars
  /\ SpeechToTextEffect
  /\ UNCHANGED <<setVars, applied, rtVars, plVars>>

\* recognition.onresult of started object k with final transcript t: the
\* onTextReceived the object captured is handleSpeechTextReceived of the
\* render with inputText = sessions[k].closure; it sets inputText and arms
\* the 1 s timer, whose callback calls that render's
\* handleTextToBodyTranslation
onresult(k, t) ==
  /\ sessions[k].state = "active"
  /\ Len(speechTimers) < MaxSpeechTimers
  /\ inputText' = t
  /\ entered' = t
  /\ speechTimers' = Append(speechTimers,
       [text |-> t, captured |-> sessions[k].closure])
  /\ UNCHANGED <<translationMode, isProcessing, bodyInstructions,
                 translationResult, translatorError, useRealHumanAnimation,
                 requests, translateCalls>>
  /\ UNCHANGED <<isListening, sessions, stops>>
  /\ SpeechToTextEffect
  /\ UNCHANGED <<setVars, applied, rtVars, plVars>>

\* recognition.onend of started object k (after stop(), an error or
\* silence): onListeningChange(false)
onend(k) ==
  /\ sessions[k].state \in {"active", "stopped"}
  /\ sessions' = [sessions EXCEPT ![k].state = "ended"]
  /\ isListening' = FALSE
  /\ UNCHANGED <<speechTimers, stops>>
  /\ UNCHANGED bltVars
  /\ SpeechToTextEffect
  /\ UNCHANGED <<setVars, applied, rtVars, plVars>>

\* Stop Listening, disabled={!isSupported || !isListening}: stop() on the
\* object in recognitionRef.current; on an object that is not listening it
\* does nothing
stopListening ==
  /\ translationMode = "text-to-body"
  /\ isListening
  /\ stops < MaxStops
  /\ stops' = stops + 1
  /\ IF recognitionRef # 0 /\ Listening(recognitionRef)
       THEN sessions' = [sessions EXCEPT ![recognitionRef].state = "stopped"]
       ELSE UNCHANGED sessions
  /\ UNCHANGED <<isListening, recognitionRef, refClosure, speechTimers>>
  /\ UNCHANGED <<bltVars, setVars, applied, rtVars, plVars>>

\* the callback of the timer handleSpeechTextReceived armed, 1 s later
SpeechTimerFire(i) ==
  /\ speechTimers' = RemoveAt(speechTimers, i)
  /\ IF Trim(speechTimers[i].text) # <<>>
       THEN /\ translateCalls < MaxTranslateCalls
            /\ Len(requests) < MaxRequests
            /\ handleTextToBodyTranslation(speechTimers[i].captured)
       ELSE UNCHANGED bltVars
  /\ UNCHANGED <<isListening, sessions, stops>>
  /\ SpeechToTextEffect
  /\ UNCHANGED <<setVars, applied, rtVars, plVars>>

NextTranslator ==
  \/ \E mode \in {"body-to-text", "text-to-body"} : setTranslationMode(mode)
  \/ \E t \in InputTexts : setInputText(t)
  \/ TranslateClick
  \/ handleFileUpload
  \/ \E i \in 1..Len(requests), ok \in BOOLEAN : Response(i, ok)
  \/ startListening
  \/ \E k \in 1..Len(sessions) : onstart(k)
  \/ \E k \in 1..Len(sessions), t \in InputTexts \ {<<>>} : onresult(k, t)
  \/ \E k \in 1..Len(sessions) : onend(k)
  \/ stopListening
  \/ \E i \in 1..Len(speechTimers) : SpeechTimerFire(i)

(* ------------------------------ Settings ------------------------------- *)
\* the values the controls of the page offer for the fields kept
Languages == {"en", "es"}
Thresholds == {3, 7}
Endpoints == {"http://localhost:8000", "http://example.org"}

\* JSON.stringify of a SettingsData object: a string value becomes a quoted
\* literal, a number (tenths) its decimal digits, a boolean the word true or
\* false
StringLiteral(str) == <<"\"", str, "\"">>
NumberLiteral(n) == <<n \div 10, n % 10>>
BooleanLiteral(b) == IF b THEN "true" ELSE "false"
JSONstringify(obj) ==
  [language |-> StringLiteral(obj.language),
   confidenceThreshold |-> NumberLiteral(obj.confidenceThreshold),
   audioEnabled |-> BooleanLiteral(obj.audioEnabled),
   apiEndpoint |-> StringLiteral(obj.apiEndpoint)]

\* JSON.parse of such a text
JSONparse(json) ==
  [language |-> json.language[2],
   confidenceThreshold |->
     json.confidenceThreshold[1] * 10 + json.confidenceThreshold[2],
   audioEnabled |-> (json.audioEnabled = "true"),
   apiEndpoint |-> json.apiEndpoint[2]]

Spread_FirstWins(a, b) ==
  [k \in DOMAIN a \cup DOMAIN b |-> IF k \in DOMAIN a THEN a[k] ELSE b[k]]

\* the object spread { ...a, ...b }
Spread(a, b) ==
  [k \in DOMAIN a \cup DOMAIN b |-> IF k \in DOMAIN b THEN b[k] ELSE a[k]]

\* loadSettings in the closure of the first render, whose settings are the
\* defaults: the value it hands to setSettings
loadSettings ==
  IF storage # <<>>
    THEN Spread(DefaultSettings, JSONparse(storage[1]))
    ELSE DefaultSettings

\* the Settings page is opened: first render and the mount effect
SettingsMount ==
  /\ settingsLife = "absent"
  /\ mounts < MaxMounts
  /\ settingsLife' = "mounted"
  /\ mounts' = mounts + 1
  /\ settings' = loadSettings
  /\ isSaving' = FALSE
  /\ saveStatus' = null
  /\ UNCHANGED <<storage, healthChecks, lastSaved>>
  /\ UNCHANGED <<bltVars, sttVars, applied, rtVars, plVars>>

\* the user leaves the page; fetches stay in flight
SettingsUnmount ==
  /\ settingsLife = "mounted"
  /\ settingsLife' = "absent"
  /\ UNCHANGED <<settings, storage, isSaving, saveStatus, healthChecks, mounts,
                 lastSaved>>
  /\ UNCHANGED <<bltVars, sttVars, applied, rtVars, plVars>>

\* a select, slider, switch or text field changes one field
handleSettingChange ==
  /\ settingsLife = "mounted"
  /\ \/ \E v \in Languages : settings' = [settings EXCEPT !.language = v]
     \/ \E v \in Thresholds :
          settings' = [settings EXCEPT !.confidenceThreshold = v]
     \/ \E v \in BOOLEAN : settings' = [settings EXCEPT !.audioEnabled = v]
     \/ \E v \in Endpoints : settings' = [settings EXCEPT !.apiEndpoint = v]
  /\ UNCHANGED <<settingsLife, storage, isSaving, saveStatus, healthChecks,
                 mounts, lastSaved>>
  /\ UNCHANGED <<bltVars, sttVars, applied, rtVars, plVars>>

\* Save Settings, disabled={isSaving}: saveSettings up to its await
saveSettings ==
  /\ settingsLife = "mounted"
  /\ ~isSaving
  /\ Len(healthChecks) < MaxHealthChecks
  /\ isSaving' = TRUE
  /\ saveStatus' = null
  /\ storage' = <<JSONstringify(settings)>>
  /\ lastSaved' = settings
  /\ healthChecks' = Append(healthChecks, mounts)
  /\ UNCHANGED <<settingsLife, settings, mounts>>
  /\ UNCHANGED <<bltVars, sttVars, applied, rtVars, plVars>>

HealthOutcomes == {"ok", "not ok", "rejected"}

\* the rest of saveSettings: the fetch of /health settles.  The state
\* setters of an instance that was unmounted meanwhile do nothing.
HealthResponse(i, outcome) ==
  /\ healthChecks' = RemoveAt(healthChecks, i)
  /\ IF settingsLife = "mounted" /\ healthChecks[i] = mounts
       THEN /\ saveStatus' = IF outcome = "ok" THEN "success" ELSE "error"
            /\ isSaving' = FALSE
       ELSE UNCHANGED <<saveStatus, isSaving>>
  /\ UNCHANGED <<settingsLife, settings, storage, mounts, lastSaved>>
  /\ UNCHANGED <<bltVars, sttVars, applied, rtVars, plVars>>

\* Reset to Defaults
resetSettings ==
  /\ settingsLife = "mounted"
  /\ settings' = DefaultSettings
  /\ storage' = <<>>
  /\ lastSaved' = DefaultSettings
  /\ UNCHANGED <<settingsLife, isSaving, saveStatus, healthChecks, mounts>>
  /\ UNCHANGED <<bltVars, sttVars, applied, rtVars, plVars>>

\* the alert that shows saveStatus is closed
CloseStatus ==
  /\ settingsLife = "mounted"
  /\ saveStatus # null
  /\ saveStatus' = null
  /\ UNCHANGED <<settingsLife, settings, storage, isSaving, healthChecks,
                 mounts, lastSaved>>
  /\ UNCHANGED <<bltVars, sttVars, applied, rtVars, plVars>>

NextSettings ==
  \/ SettingsMount
  \/ SettingsUnmount
  \/ handleSettingChange
  \/ saveSettings
  \/ \E i \in 1..Len(healthChecks), outcome \in HealthOutcomes :
       HealthResponse(i, outcome)
  \/ resetSettings
  \/ CloseStatus

(* ========================= specifications ============================= *)
vars == <<rtVars, plVars, appVars>>

\* RealTimeTranslation; no player is on its page
PlayerAbsent ==
  /\ instructions = <<>>
  /\ currentStep = 0
  /\ isPlaying = FALSE
  /\ progress = 0
  /\ now = 0
  /\ timers = <<>>
  /\ progressRef = 0
  /\ onCompleteCalls = 0
  /\ played = 0
  /\ animationSpeed = 10
  /\ speedSetAt = 0
Init == InitRT /\ PlayerAbsent /\ AppAbsent
Next == NextRT
Spec == Init /\ [][Next]_vars
SpecInbound == Init /\ [][NextInbound]_vars
SpecSend == Init /\ [][NextSend]_vars

\* SimpleHumanVideo, uninterrupted and with the play/pause button
InitPlayer == InitSHV /\ InitRT /\ AppAbsent
SpecPlay == InitPlayer /\ [][NextPlay]_vars
SpecPlayer == InitPlayer /\ [][NextPlayer]_vars

SpecReplay == InitPlayer /\ [][NextReplay]_vars
\* SimpleHumanVideo as mounted by BodyLanguageTranslator
SpecTranslate == InitPlayer /\ [][NextTranslate]_vars

\* the translator page with its speech input
SpecTranslator == Init /\ [][NextTranslator]_vars

\* the Settings page, opened and left
SpecSettings == Init /\ [][NextSettings]_vars

\* SimpleHumanVideo mounted with any list, the empty one included
InitAnyList == (InitSHV \/ InitSHVEmpty) /\ InitRT /\ AppAbsent
SpecAnyList == InitAnyList /\ [][NextPlayer]_vars

\* either player, with its play/pause and replay buttons
InitPlayers == InitEither /\ InitRT
SpecPlayers == InitPlayers /\ [][NextEither]_vars

\* RealHumanBodyAnimation
InitAnimation == InitRHBA /\ InitRT /\ AppAbsent
SpecRHBA == InitAnimation /\ [][NextRHBA]_vars
SpecAnimation == InitAnimation /\ [][NextAnimation]_vars
SpecSpeed == InitAnimation /\ [][NextSpeed]_vars
SpecFrames == InitAnimation /\ [][NextFrames]_vars

(* ================= claims about RealTimeTranslation ==================== *)

\* C1: at every moment at most one WebSocket created by the component is in
\* the CONNECTING or OPEN state.
C1_AtMostOneLiveSocket == Cardinality(LiveSockets) <= 1

\* every attempt so far has failed or is still pending, and the user has not
\* pressed Reconnect nor left the page
AllFailedNoUser ==
  /\ life = "mounted"
  /\ \A s \in Sockets : ~ws[s].manual /\ ~ws[s].opened

\* without a manual reconnect every socket after the first was created by a
\* retry timer, so the retries scheduled so far are those plus the pending ones
RetriesScheduled == (Len(ws) - 1) + Cardinality(retryTimers)

\* C2: when every connection attempt fails and the user does nothing, at most
\* 3 automatic retries are ever scheduled (the retry loop terminates).
C2_RetryBudget == AllFailedNoUser => RetriesScheduled <= MaxAttempts

\* C7: after the unmount cleanup no retry timer fires and no new WebSocket is
\* created.
C7_NoSocketAfterDisconnect ==
  [][life = "unmounted" => Len(ws') = Len(ws)]_vars

\* C8: a connection error is surfaced only by an attempt made with the budget
\* of 3 exhausted, and such an attempt surfaces it at most once across its
\* onerror and onclose handlers.
C8_SingleNotice ==
  \A s \in Sockets :
    /\ ws[s].attempts < MaxAttempts => errNotices[s] = 0
    /\ errNotices[s] <= 1

\* C9: the handlers of a connection opened by a manual Reconnect consult an
\* attempt count of 0, whatever the count was before the click.
C9_ManualReconnectResets == \A s \in Sockets : ws[s].manual => ws[s].attempts = 0

\* the socket in wsRef.current is OPEN
CurrentOpen == wsRef # 0 /\ ws[wsRef].readyState = "OPEN"

\* the text t is made of whitespace only
Blank(t) == \A i \in 1..Len(t) : t[i] = " "

\* what the component holds besides the count of submissions
Component ==
  <<life, isConnected, isConnecting, connectionAttempts, error, messages, wsRef,
    ws, retryTimers, retryTimeoutRef, errorTimers, errorTimeoutRef,
    currentTranslation, textInput, sent>>

\* C16: a non-blank text submitted while the socket is not OPEN is not
\* silently lost: the submission either shows the not-connected error or
\* leaves a trace in the component (the text kept for transmission once the
\* connection opens).
C16_SubmitNotSilent ==
  [][ (submits' # submits /\ ~Blank(textInput) /\ ~CurrentOpen)
      => (error' = ErrNotConnected \/ Component' # Component) ]_vars

IsTranslation(m) == m.type = "translation"

\* the contents of the 'translation' entries of messages, in list order
ShownTranslations ==
  LET shown == SelectSeq(messages, IsTranslation)
  IN [i \in 1..Len(shown) |-> shown[i].content]

\* the texts of the inbound translation frames, in arrival order
ArrivedTranslations ==
  LET frames == SelectSeq(arrived, IsTranslation)
  IN [i \in 1..Len(frames) |-> frames[i].text]

\* C17: while the component is mounted, the 'translation' entries of messages
\* are the texts of the inbound translation frames, each once and in arrival
\* order, and currentTranslation is the text of the latest of them.
C17_InboundInOrder ==
  life # "unmounted"
  => /\ ShownTranslations = ArrivedTranslations
     /\ currentTranslation = IF ArrivedTranslations = <<>> THEN <<>>
                              ELSE ArrivedTranslations[Len(ArrivedTranslations)]

\* two different translations have arrived, with another frame between or
\* around them
C17_Witness ==
  /\ life = "mounted"
  /\ Len(ArrivedTranslations) = 2
  /\ ArrivedTranslations[1] # ArrivedTranslations[2]
  /\ Len(messages) >= 3

KnownTypes == {"translation", "gesture_detected", "error"}
Latest == arrived'[Len(arrived')]
Arrival == Len(arrived') = Len(arrived) + 1

\* C18: a frame of a type other than 'translation', 'gesture_detected' and
\* 'error' leaves messages, currentTranslation, error and the connection
\* flags unchanged, and a translation that arrives after such a frame is
\* still shown.
C18_UnknownTypeIgnored ==
  [][ /\ (Arrival /\ Latest.type \notin KnownTypes)
         => UNCHANGED <<messages, currentTranslation, error, isConnected,
                        isConnecting, connectionAttempts>>
      /\ (Arrival /\ Latest.type = "translation" /\ life = "mounted"
          /\ \E i \in 1..Len(arrived) : arrived[i].type \notin KnownTypes)
         => /\ currentTranslation' = Latest.text
            /\ messages' = Append(messages, [type |-> "translation",
                                             content |-> Latest.text]) ]_vars

\* a frame of unknown type arrived first and a translation after it
C18_Witness ==
  /\ life = "mounted"
  /\ Len(arrived) = 2
  /\ arrived[1].type \notin KnownTypes
  /\ arrived[2].type = "translation"
  /\ currentTranslation = arrived[2].text

\* t is x without its leading and trailing whitespace
IsTrimOf(t, x) ==
  /\ t # <<>> => (t[1] # " " /\ t[Len(t)] # " ")
  /\ \E i, j \in 0..Len(x) :
        /\ i + Len(t) + j = Len(x)
        /\ \A k \in 1..Len(x) :
              x[k] = IF k <= i \/ k > i + Len(t) THEN " " ELSE t[k - i]

\* C19: sendTextInput with a non-blank text while the socket in wsRef is OPEN
\* sends exactly one frame {type: 'text_input', text: the trimmed text} on
\* that socket, appends exactly one 'user' message with the trimmed text and
\* clears the input; with a blank text, or a socket that is not OPEN, it
\* sends nothing and changes no state.
C19_SendTextInput ==
  [][ submits' # submits
      => IF ~Blank(textInput) /\ CurrentOpen
         THEN /\ Len(sent') = Len(sent) + 1
              /\ SubSeq(sent', 1, Len(sent)) = sent
              /\ sent'[Len(sent')].socket = wsRef
              /\ sent'[Len(sent')].frame.type = "text_input"
              /\ IsTrimOf(sent'[Len(sent')].frame.text, textInput)
              /\ Len(messages') = Len(messages) + 1
              /\ SubSeq(messages', 1, Len(messages)) = messages
              /\ messages'[Len(messages')].type = "user"
              /\ IsTrimOf(messages'[Len(messages')].content, textInput)
              /\ textInput' = <<>>
         ELSE Component' = Component ]_vars

\* a typed text has been sent on the second socket the component created
C19_Witness ==
  /\ Len(sent) = 1
  /\ sent[1].socket = 2
  /\ sent[1].frame.text = <<"a">>
  /\ messages[Len(messages)] = [type |-> "user", content |-> <<"a">>]
  /\ textInput = <<>>

\* a connection is established in this step
Opens == \E s \in Sockets : ws[s].readyState = "CONNECTING" /\ ws'[s].readyState = "OPEN"

\* connectWebSocket(true) runs in this step
ManualReconnect == Len(ws') = Len(ws) + 1 /\ ws'[Len(ws')].manual

\* C20: connectionAttempts is reset to 0 by a successful open and by a manual
\* reconnect, and by no other event: an automatic retry, onclose and inbound
\* messages never reset or decrease it.
C20_AttemptsResetOnlyByOpenOrManual ==
  [][ /\ connectionAttempts' < connectionAttempts => (Opens \/ ManualReconnect)
      /\ ((Opens \/ ManualReconnect) /\ life' = "mounted") => connectionAttempts' = 0
    ]_vars

\* the count has been raised by failures and reset by a later open, and a
\* frame has arrived since
C20_Witness ==
  /\ life = "mounted"
  /\ Len(ws) = 2 /\ ws[1].readyState = "CLOSED" /\ ~ws[1].opened
  /\ ws[2].readyState = "OPEN"
  /\ connectionAttempts = 0
  /\ arrived # <<>>

\* the status chip shows 'Connected'
StatusConnected == isConnected /\ ~isConnecting

\* C21: while the component is mounted the status reflects the socket in
\* wsRef: the status is Connected exactly when that socket is OPEN.
C21_StatusReflectsSocket == life = "mounted" => (CurrentOpen <=> StatusConnected)

(* ================= claims about the per-step players ==================== *)

Total == SumTo(instructions, Len(instructions))
LastStep == Len(instructions) - 1

\* C3: an uninterrupted play-through of a non-empty list ends with
\* isPlaying = false on the last step and exactly one call of onComplete,
\* however the elapsed time is split across the interval callbacks; until
\* then onComplete has not been called.
C3_CompletesExactlyOnce ==
  /\ onCompleteCalls <= 1
  /\ isPlaying => onCompleteCalls = 0
  /\ ~isPlaying => (currentStep = LastStep /\ onCompleteCalls = 1)

\* a list of several steps has been played to the end with callbacks that
\* came late (more time has passed than the durations add up to)
C3_Witness ==
  /\ ~isPlaying /\ onCompleteCalls = 1
  /\ Len(instructions) >= 2 /\ currentStep = LastStep
  /\ now > Total

\* the step whose cumulative-duration interval contains playing time T
StepAt(T) ==
  IF T >= Total THEN LastStep
  ELSE CHOOSE i \in 0..LastStep :
         SumTo(instructions, i) <= T /\ T < SumTo(instructions, i + 1)

\* the fraction of that step elapsed at playing time T
ProgressAt(T) ==
  IF T >= Total THEN Full
  ELSE ((T - SumTo(instructions, StepAt(T))) * Full) \div instructions[StepAt(T) + 1]

\* C10: time beyond the end of a step is carried over: whenever a timer
\* callback of an uninterrupted play-through updates the player at playing
\* time T (= now), the step is the one whose cumulative-duration interval
\* contains T, progress is the fraction of that step elapsed, and the player
\* is complete exactly when T covers the whole list.
C10_OvershootCarriedOver ==
  [][ <<currentStep, progress, isPlaying>>' # <<currentStep, progress, isPlaying>>
      => /\ currentStep' = StepAt(now)
         /\ progress' = ProgressAt(now)
         /\ isPlaying' = (now < Total) ]_vars

\* C6: pausing and resuming is time-neutral: whenever a timer callback
\* updates progress, the new value is the fraction of the current step given
\* by the time spent playing in that step, pauses not counted (resuming
\* continues the step from the progress at which it was paused).
C6_PauseTimeNeutral ==
  [][ progress' # progress /\ onCompleteCalls = 0
      => progress' = NewProgress(played', instructions[currentStep' + 1]) ]_vars

\* C11: handleReplay in any state (playing in any step, step 0 included,
\* paused, or complete) leaves the player playing from the beginning:
\* isPlaying = true, currentStep = 0, progress = 0, and the one armed timer
\* measures the elapsed time of step 0 from the moment of the replay.
C11_ReplayRestarts ==
  [][ handleReplay
      => /\ isPlaying' /\ currentStep' = 0 /\ progress' = 0
         /\ Len(timers') = 1 /\ progressRef' = 1
         /\ timers'[1].step = 0
         /\ timers'[1].startTime = now' ]_vars

\* C12: once onComplete has fired the player is complete for good (there is
\* no replay and no new list): no timer is armed again, progress does not
\* change and onComplete is not called again, whatever play/pause does.
C12_CompleteIsTerminal ==
  [][ onCompleteCalls >= 1
      => /\ timers' = <<>>
         /\ progress' = progress
         /\ onCompleteCalls' = onCompleteCalls ]_vars

\* the player has not completed, or has been started again
NotComplete == isPlaying \/ onCompleteCalls = 0

\* C13: in every state that is not complete, currentStep is a valid index
\* into the current instructions prop, also after a new translation replaced
\* the list by a shorter non-empty one.
C13_StepIndexValid == NotComplete => currentStep \in 0..(Len(instructions) - 1)

C22_ProgressInRange == progress >= 0 /\ progress <= Full

\* a callback came after the end of a one-step list: the player is complete
\* and progress stands at 100
C22_Witness ==
  /\ Len(instructions) = 1 /\ now > instructions[1]
  /\ progress = Full /\ ~isPlaying

(* ================ claims about RealHumanBodyAnimation ================== *)

\* C4: during one play-through onComplete is called exactly once: no later
\* timer tick calls it again.
C4_OnCompleteOnce == onCompleteCalls <= 1

\* C14: within one play-through (no replay, no new list) progress never
\* decreases while isPlaying is true and stays constant while it is false.
C14_ProgressMonotone ==
  [][ /\ (isPlaying /\ isPlaying') => progress' >= progress
      /\ (~isPlaying /\ ~isPlaying') => progress' = progress ]_vars

\* C15: once handleSpeedChange has set the speed s, playback time advances by
\* wall-clock time x s: when updateProgress runs for a step that started
\* after the speed was set, the step of duration d is finished exactly if the
\* wall-clock time elapsed is at least d / s, and otherwise progress is the
\* fraction elapsed x s / d.
C15_SpeedScalesTime ==
  [][ \A t \in 1..Len(timers) :
        (RHBA_TimeoutCallback(t) /\ timers[t].startTime >= speedSetAt)
        => LET scaled == NewProgress((now - timers[t].startTime) * animationSpeed,
                                     instructions[timers[t].step + 1] * 10)
           IN IF scaled >= Full
              THEN currentStep' = timers[t].step + 1 \/ ~isPlaying'
              ELSE progress' = scaled ]_vars

\* C5: while playback is paused (isPlaying = false) no timer callback changes
\* progress or currentStep.
C5_PausedIsFrozen ==
  [][ (~isPlaying /\ ~isPlaying') => UNCHANGED <<progress, currentStep>> ]_vars

(* ================ claims about BodyLanguageTranslator ================== *)
\* C24: a call of handleTextToBodyTranslation while the user has entered no
\* text (nothing yet, or only whitespace) sets the error 'Please enter some
\* text to translate', issues no request, leaves isProcessing false and
\* leaves bodyInstructions as they were.
C24_NoTextNoRequest ==
  [][translateCalls' # translateCalls /\ Trim(entered) = <<>> =>
       /\ translatorError' = ErrEnterText
       /\ requests' = requests
       /\ ~isProcessing'
       /\ bodyInstructions' = bodyInstructions]_vars

Pending == {i \in 1..Len(requests) : requests[i].status = "pending"}

\* C26: isProcessing is true while at least one translation request is in
\* flight.
C26_ProcessingWhileInFlight == Pending # {} => isProcessing

\* C27: once no request is in flight, what is displayed is the outcome of
\* the request issued last: its result if it succeeded, its error if it
\* failed.
C27_LastRequestDisplayed ==
  Pending = {} /\ requests # <<>> =>
    LET n == Len(requests) IN
      IF requests[n].status = "ok"
        THEN /\ requests[n].kind = "video" => translationResult = n
             /\ requests[n].kind = "text" => bodyInstructions = n
             /\ translatorError # ErrHttp
        ELSE translatorError = ErrHttp

\* C28: the auto-translate timer armed for a non-blank speech text t issues
\* a request that carries t.
C28_AutoTranslateCarriesSpeech ==
  [][\A i \in 1..Len(speechTimers) :
       SpeechTimerFire(i) /\ Trim(speechTimers[i].text) # <<>> =>
         /\ Len(requests') = Len(requests) + 1
         /\ requests'[Len(requests')].text = speechTimers[i].text]_vars

\* C29: stopListening stops the session startListening started: after the
\* call no started recognition object is listening any more, so none can
\* deliver a result.
C29_StopStopsStartedSession ==
  [][stops' # stops => \A k \in 1..Len(sessions') : ~Listening(k)']_vars

C30_FrameUsesCurrentValues ==
  [][RHBA_AnimationFrame =>
       applied'[Len(applied')] = <<currentStep, animationSpeed>>]_vars

====
